---- MODULE Spec2Model ----
(***************************************************************************)
(* goinapp/ios: the receipt-validation client (Validator.Validate and      *)
(* Validator.ValidateAuto), the environment selector (AppleEnv and the env *)
(* package) and the status taxonomy (ValidationResponse.StatusError).      *)
(*                                                                         *)
(* A caller p invokes Validate or ValidateAuto on the shared Validator.    *)
(* Every statement of the two methods that can be observed from outside    *)
(* (payload encoding, request construction, client.Do, body decoding, the  *)
(* returns) is one step, so that a cancellation of the caller's context    *)
(* can arrive between any two of them.  The HTTP transport, the remote     *)
(* service and the caller's context are the environment of the program.    *)
(***************************************************************************)
EXTENDS Integers, Sequences, FiniteSets, TLC

VARIABLES
    active,     \* the callers that take part in this run
    password,   \* Validator.password, set by NewValidator and its options
    op,         \* op[p]: the public method caller p invoked
    pc,         \* pc[p]: the statement caller p is at
    receipt,    \* receipt[p]: the receipt argument of the public method
    env,        \* env[p]: the Env argument of the Validate call in progress
    ctxDone,    \* ctxDone[p]: the caller's context is canceled / past its deadline
    calls,      \* calls[p]: the client.Do invocations made for p, in order, each
                \* with the state of the caller's context when it returned
    body,       \* body[p]: the request body built by the Validate call in progress
    res,        \* res[p]: the *http.Response client.Do handed back
    vret,       \* vret[p]: what the Validate call in progress returned
    first,      \* first[p]: resp, err of ValidateAuto (line 96)
    retry,      \* retry[p]: retryResp, retryErr of ValidateAuto (line 101)
    ret,        \* ret[p]: what the public method returned to the caller
    seen,       \* seen[p]: what the caller read from the returned response
    inapp,      \* a purchase record (InApp) a caller holds
    now,        \* time.Now(), in nanoseconds since the epoch
    observed,   \* what the lifecycle methods of inapp returned when last called
    inapps,     \* a sequence of purchase records (InApps) a caller holds
    sortRes,    \* what the last call of Sorted / LatestInApp on inapps returned
    decoded,    \* a decoded ValidationResponse a caller holds
    answer,     \* what the last method called on decoded returned
    stamps,     \* two epoch-millisecond timestamps (int64)
    instants    \* what convertToTime made of stamps, and how the results compare

validatorVars == <<active, password, op, pc, receipt, env, ctxDone, calls, body,
                   res, vret, first, retry, ret, seen>>

recordVars == <<inapp, now, observed>>

sliceVars == <<inapps, sortRes>>

responseVars == <<decoded, answer>>

conversionVars == <<stamps, instants>>

vars == <<validatorVars, recordVars, sliceVars, responseVars, conversionVars>>

----------------------------------------------------------------------------
(* Bounds of the model *)

\* the remote service answers with a status in StatusLo..StatusHi or one of
\* the far values of ExtraStatuses
StatusLo == 20995
StatusHi == 21205

Procs == {1, 2}

\* the ends of the 32-bit integer domain
MaxInt32 == 2^30 + (2^30 - 1)
MinInt32 == (-MaxInt32) - 1

ExtraStatuses == {MinInt32, -21008, -1, 0, 1, 21008 * 2, MaxInt32}

StatusDomain == (StatusLo..StatusHi) \cup ExtraStatuses

Passwords == {"", "secret"}

Receipts == {"", "cmVjZWlwdA=="}

----------------------------------------------------------------------------
(* Errors.  A Go error is nil or carries a message; fmt.Errorf with %v     *)
(* builds a new message from a prefix and the formatted operand.           *)

NilErr == [isNil |-> TRUE, msg |-> <<>>]

NewError(m) == [isNil |-> FALSE, msg |-> <<m>>]

\* how fmt formats an error operand under %v: a nil error prints as <nil>
FormatV(e) == IF e.isNil THEN <<"<nil>">> ELSE e.msg

Errorf(prefix, e) == [isNil |-> FALSE, msg |-> <<prefix>> \o FormatV(e)]

ErrMalformedJSON        == NewError("the App Store could not read the JSON object you provided")
ErrMalformedReceiptData == NewError("data in the receipt-data property was malformed or missing")
ErrNotAuthenticated     == NewError("receipt could not be authenticated")
ErrUnauthorizedReceipt  == NewError("receipt could not be authorized")
ErrIncorrectSecret      == NewError("wrong secret")
ErrServerNotAvailable   == NewError("receipt server is not currently available")
ErrSubscriptionExpired  == NewError("receipt is valid but the subscription has expired")
ErrSandboxOnProduction  == NewError("wrong environment: sandbox receipt was sent to production environment")
ErrProductionOnSandbox  == NewError("wrong environment: production receipt was sent to sandbox environment")
ErrInternalDataAccess   == NewError("internal data access error")
ErrUnknown              == NewError("an unknown error occurred")

----------------------------------------------------------------------------
(* Environment selector *)

\* ios package (AppleEnv)
prodURL == "https://sandbox.itunes.apple.com/verifyReceipt"
sandURL == "https://buy.itunes.apple.com/verifyReceipt"

\* env package
sandboxURL    == "https://sandbox.itunes.apple.com/verifyReceipt"
productionURL == "https://buy.itunes.apple.com/verifyReceipt"

\* An Env value: its dynamic type, the int of an AppleEnv, the url field of
\* an endpointEnv or of a caller's own Env implementation.
AppleEnv(n)      == [type |-> "AppleEnv", n |-> n, url |-> ""]
Production       == AppleEnv(0)
Sandbox          == AppleEnv(1)
EnvProduction    == [type |-> "productionEnv", n |-> 0, url |-> ""]
EnvSandbox       == [type |-> "sandboxEnv", n |-> 0, url |-> ""]
EnvEndpoint(u)   == [type |-> "endpointEnv", n |-> 0, url |-> u]
NoEnv            == [type |-> "none", n |-> 0, url |-> ""]

\* AppleEnv.Endpoint: a map lookup; a key that is not in the map yields ""
AppleEnvEndpoint(n) ==
    LET envs == (0 :> prodURL) @@ (1 :> sandURL)
    IN  IF n \in DOMAIN envs THEN envs[n] ELSE ""

\* Env.Endpoint() / Environment.URL(), by dynamic type
Endpoint(e) ==
    CASE e.type = "AppleEnv"      -> AppleEnvEndpoint(e.n)
      [] e.type = "productionEnv" -> productionURL
      [] e.type = "sandboxEnv"    -> sandboxURL
      [] OTHER                    -> e.url

\* the URLs callers route to; ":" has no scheme and does not parse
ProxyURL     == "http://proxy.local/verifyReceipt"
MalformedURL == ":"
CustomURLs   == {ProxyURL, MalformedURL, ""}

Envs == {Production, Sandbox, AppleEnv(3), EnvProduction, EnvSandbox}
            \cup {EnvEndpoint(u) : u \in CustomURLs}

----------------------------------------------------------------------------
(* Status taxonomy *)

\* ValidationResponse.IsValid
IsValid(status) == status = 0

\* a StatusError whose table lacks 21006 and whose range check starts one late
StatusError_Lossy(status) ==
    LET errs == (0 :> NilErr)
             @@ (21000 :> ErrMalformedJSON)
             @@ (21002 :> ErrMalformedReceiptData)
             @@ (21003 :> ErrNotAuthenticated)
             @@ (21004 :> ErrIncorrectSecret)
             @@ (21005 :> ErrServerNotAvailable)
             @@ (21007 :> ErrSandboxOnProduction)
             @@ (21008 :> ErrProductionOnSandbox)
             @@ (21010 :> ErrUnauthorizedReceipt)
    IN  IF status \in DOMAIN errs THEN errs[status]
        ELSE IF status > 21100 /\ status <= 21199 THEN ErrInternalDataAccess
        ELSE ErrUnknown

\* ValidationResponse.StatusError
StatusError(status) ==
    LET errs == (0 :> NilErr)
             @@ (21000 :> ErrMalformedJSON)
             @@ (21002 :> ErrMalformedReceiptData)
             @@ (21003 :> ErrNotAuthenticated)
             @@ (21004 :> ErrIncorrectSecret)
             @@ (21005 :> ErrServerNotAvailable)
             @@ (21006 :> ErrSubscriptionExpired)
             @@ (21007 :> ErrSandboxOnProduction)
             @@ (21008 :> ErrProductionOnSandbox)
             @@ (21010 :> ErrUnauthorizedReceipt)
    IN  IF status \in DOMAIN errs THEN errs[status]
        ELSE IF status >= 21100 /\ status <= 21199 THEN ErrInternalDataAccess
        ELSE ErrUnknown

----------------------------------------------------------------------------
(* Values that cross the Validate boundary *)

\* *ValidationResponse: nil, or the response decoded from the reply to the
\* reqNo-th request of the caller
NilResp == [isNil |-> TRUE, Status |-> 0, reqNo |-> 0]

Response(status, n) == [isNil |-> FALSE, Status |-> status, reqNo |-> n]

\* a (response, error) pair; set tells a pair that was returned from the
\* zero value of a local that was never assigned
NoRet == [set |-> FALSE, resp |-> NilResp, err |-> NilErr]

Ret(r, e) == [set |-> TRUE, resp |-> r, err |-> e]

\* the reply of the remote service: a body that is well-formed JSON of the
\* expected shape ("json"), JSON whose status decodes but a later field does
\* not ("badfield"), or no JSON at all ("garbage")
NoRes == [kind |-> "none", Status |-> 0]

\* the statuses the service answers with while two callers are at work: a
\* valid receipt, the status that makes ValidateAuto retry, a rejection
ConcurrentStatuses == {0, 21008, 21000}

ReplyStatuses == IF Cardinality(active) > 1 THEN ConcurrentStatuses ELSE StatusDomain

Replies == [kind : {"json", "badfield"}, Status : ReplyStatuses]
               \cup {[kind |-> "garbage", Status |-> 0]}

NotSeen == [set |-> FALSE, valid |-> FALSE, err |-> NilErr]

\* ValidationRequest under encoding/json: receipt-data is always written,
\* password and exclude-old-transactions are omitempty
ValidationRequest(r, pw) ==
    [ReceiptData |-> r, Password |-> pw, ExcludeOldTransactions |-> FALSE]

\* an encoding without omitempty: every field is written
JSONEncode_NoOmitEmpty(payload) ==
    {<<"receipt-data", payload.ReceiptData>>,
     <<"password", payload.Password>>,
     <<"exclude-old-transactions",
       IF payload.ExcludeOldTransactions THEN "true" ELSE "false">>}

JSONEncode(payload) ==
    {<<"receipt-data", payload.ReceiptData>>}
        \cup (IF payload.Password # "" THEN {<<"password", payload.Password>>} ELSE {})
        \cup (IF payload.ExcludeOldTransactions
                 THEN {<<"exclude-old-transactions", "true">>} ELSE {})

\* json.Encoder.Encode of a struct of two strings and a bool into a
\* bytes.Buffer has no failing case
EncodeErr(payload) == NilErr

\* http.NewRequest parses the URL: a URL that starts with a colon has no
\* protocol scheme and is refused
URLParses(u) == u # MalformedURL

\* the transport refuses a request whose URL has no http(s) scheme
Routable(u) == u \in {prodURL, sandURL, productionURL, sandboxURL, ProxyURL}

----------------------------------------------------------------------------
(* The caller *)

\* the caller invokes v.Validate(ctx, receipt, e)
Invoke_Validate(p, r, e) ==
    /\ p \in active
    /\ UNCHANGED <<recordVars, sliceVars, responseVars, conversionVars>>
    /\ pc[p] = "idle"
    /\ op' = [op EXCEPT ![p] = "Validate"]
    /\ receipt' = [receipt EXCEPT ![p] = r]
    /\ env' = [env EXCEPT ![p] = e]
    /\ pc' = [pc EXCEPT ![p] = "encode"]
    /\ UNCHANGED <<active, password, ctxDone, calls, body, res, vret, first,
                   retry, ret, seen>>

\* the caller invokes v.ValidateAuto(ctx, receipt), which starts with
\* v.Validate(ctx, receipt, Production)
Invoke_ValidateAuto(p, r) ==
    /\ p \in active
    /\ UNCHANGED <<recordVars, sliceVars, responseVars, conversionVars>>
    /\ pc[p] = "idle"
    /\ op' = [op EXCEPT ![p] = "ValidateAuto"]
    /\ receipt' = [receipt EXCEPT ![p] = r]
    /\ env' = [env EXCEPT ![p] = Production]
    /\ pc' = [pc EXCEPT ![p] = "encode"]
    /\ UNCHANGED <<active, password, ctxDone, calls, body, res, vret, first,
                   retry, ret, seen>>

\* the caller's context is canceled, or its deadline passes; this can happen
\* before the call, and at any point until the method has returned
Cancel(p) ==
    /\ p \in active
    /\ UNCHANGED <<recordVars, sliceVars, responseVars, conversionVars>>
    /\ pc[p] # "done"
    /\ ~ctxDone[p]
    /\ ctxDone' = [ctxDone EXCEPT ![p] = TRUE]
    /\ UNCHANGED <<active, password, op, pc, receipt, env, calls, body, res,
                   vret, first, retry, ret, seen>>

----------------------------------------------------------------------------
(* Validator.Validate *)

\* return nil, <error> from Validate
ValidateFails(p, e) ==
    /\ vret' = [vret EXCEPT ![p] = Ret(NilResp, e)]
    /\ pc' = [pc EXCEPT ![p] = "vreturn"]

\* payload := ValidationRequest{...}; json.NewEncoder(&body).Encode(payload)
Encode(p) ==
    /\ pc[p] = "encode"
    /\ UNCHANGED <<recordVars, sliceVars, responseVars, conversionVars>>
    /\ LET payload == ValidationRequest(receipt[p], password)
       IN  IF ~EncodeErr(payload).isNil
           THEN /\ ValidateFails(p, Errorf("body payload encoding error", EncodeErr(payload)))
                /\ UNCHANGED body
           ELSE /\ body' = [body EXCEPT ![p] = JSONEncode(payload)]
                /\ pc' = [pc EXCEPT ![p] = "newreq"]
                /\ UNCHANGED vret
    /\ UNCHANGED <<active, password, op, receipt, env, ctxDone, calls, res,
                   first, retry, ret, seen>>

\* req, err := http.NewRequest(http.MethodPost, env.Endpoint(), &body)
NewRequest(p) ==
    /\ pc[p] = "newreq"
    /\ UNCHANGED <<recordVars, sliceVars, responseVars, conversionVars>>
    /\ IF ~URLParses(Endpoint(env[p]))
       THEN ValidateFails(p, Errorf("http request creation error",
                                    NewError("missing protocol scheme")))
       ELSE /\ pc' = [pc EXCEPT ![p] = "do"]
            /\ UNCHANGED vret
    /\ UNCHANGED <<active, password, op, receipt, env, ctxDone, calls, body,
                   res, first, retry, ret, seen>>

\* a request sent without the caller's context is never done
ReqDone_Background(p) == FALSE

\* a request that is done as soon as the context of any caller is
ReqDone_AnyCaller(p) == \E q \in Procs : ctxDone[q]

\* the request handed to client.Do: req.WithContext(ctx), so the request is
\* done when the caller's context is
ReqDone(p) == ctxDone[p]

\* v.client.Do(req.WithContext(ctx)) is entered: one call through the
\* injected transport
Do(p) ==
    /\ pc[p] = "do"
    /\ UNCHANGED <<recordVars, sliceVars, responseVars, conversionVars>>
    /\ calls' = [calls EXCEPT ![p] =
                    Append(@, [url |-> Endpoint(env[p]), env |-> env[p],
                               body |-> body[p], ctx |-> "pending"])]
    /\ pc' = [pc EXCEPT ![p] = "await"]
    /\ UNCHANGED <<active, password, op, receipt, env, ctxDone, body, res,
                   vret, first, retry, ret, seen>>

\* a Validate that sends the request again when the transport failed
DoFailed_SendAgain(p, cause) ==
    /\ pc' = [pc EXCEPT ![p] = "do"]
    /\ UNCHANGED <<vret, res>>

\* if err != nil { return nil, fmt.Errorf("http request failure: %v", err) }
DoFailed(p, cause) ==
    /\ ValidateFails(p, Errorf("http request failure", NewError(cause)))
    /\ UNCHANGED res

\* client.Do returns.  A request whose context is done yields an error; so
\* does a URL the transport cannot route; otherwise the network fails or
\* the remote service replies.
DoReturn(p) ==
    /\ pc[p] = "await"
    /\ UNCHANGED <<recordVars, sliceVars, responseVars, conversionVars>>
    /\ calls' = [calls EXCEPT ![p][Len(calls[p])].ctx =
                    IF ctxDone[p] THEN "done" ELSE "live"]
    /\ LET url == calls[p][Len(calls[p])].url
       IN  IF ReqDone(p) THEN DoFailed(p, "context canceled")
           ELSE IF ~Routable(url) THEN DoFailed(p, "unsupported protocol scheme")
           ELSE \/ DoFailed(p, "connection refused")
                \/ \E reply \in Replies :
                      /\ res' = [res EXCEPT ![p] = reply]
                      /\ pc' = [pc EXCEPT ![p] = "decode"]
                      /\ UNCHANGED vret
    /\ UNCHANGED <<active, password, op, receipt, env, ctxDone, body,
                   first, retry, ret, seen>>

\* a Validate that reports a rejected receipt as an error
ValidateSucceeds_StatusAsError(response) ==
    IF IsValid(response.Status) THEN Ret(response, NilErr)
    ELSE Ret(NilResp, StatusError(response.Status))

\* return &response, nil
ValidateSucceeds(response) == Ret(response, NilErr)

\* a Validate that hands back what was decoded before the decoder failed
DecodeFails_KeepPartial(response, e) == Ret(response, e)

\* if err := ...Decode(&response); err != nil { return nil, err }: the
\* partly filled response is dropped
DecodeFails(response, e) == Ret(NilResp, e)

\* json.NewDecoder(res.Body).Decode(&response); a failure returns nil and
\* the decoder's error as it is.  Reading the body of a request whose
\* context is done may fail as well.
Decode(p) ==
    /\ pc[p] = "decode"
    /\ UNCHANGED <<recordVars, sliceVars, responseVars, conversionVars>>
    /\ \/ /\ ReqDone(p)
          /\ vret' = [vret EXCEPT ![p] =
                         DecodeFails(Response(0, Len(calls[p])),
                                     NewError("context canceled"))]
       \/ /\ res[p].kind = "garbage"
          /\ vret' = [vret EXCEPT ![p] =
                         DecodeFails(Response(0, Len(calls[p])),
                                     NewError("invalid character"))]
       \/ /\ res[p].kind = "badfield"
          /\ vret' = [vret EXCEPT ![p] =
                         DecodeFails(Response(res[p].Status, Len(calls[p])),
                                     NewError("can't unmarshall json value"))]
       \/ /\ res[p].kind = "json"
          /\ vret' = [vret EXCEPT ![p] =
                         ValidateSucceeds(Response(res[p].Status, Len(calls[p])))]
    /\ pc' = [pc EXCEPT ![p] = "vreturn"]
    /\ UNCHANGED <<active, password, op, receipt, env, ctxDone, calls, body,
                   res, first, retry, ret, seen>>

\* Validate returns to the caller that invoked it directly
Validate_Return(p) ==
    /\ pc[p] = "vreturn"
    /\ UNCHANGED <<recordVars, sliceVars, responseVars, conversionVars>>
    /\ op[p] = "Validate"
    /\ ret' = [ret EXCEPT ![p] = vret[p]]
    /\ pc' = [pc EXCEPT ![p] = "done"]
    /\ UNCHANGED <<active, password, op, receipt, env, ctxDone, calls, body,
                   res, vret, first, retry, seen>>

----------------------------------------------------------------------------
(* Validator.ValidateAuto *)

\* a retry condition that looks for the other environment-mismatch status
ShouldRetry_SandboxOnProduction(resp) ==
    ~IsValid(resp.Status) /\ StatusError(resp.Status) = ErrSandboxOnProduction

\* !resp.IsValid() && resp.StatusError() == ErrProductionOnSandbox
ShouldRetry(resp) ==
    ~IsValid(resp.Status) /\ StatusError(resp.Status) = ErrProductionOnSandbox

\* the error ValidateAuto returns when the retry failed
RetryFailure(err, retryErr) == Errorf("validation with auto env failed", err)

\* resp, err := v.Validate(ctx, receipt, Production) has returned
ValidateAuto_First(p) ==
    /\ pc[p] = "vreturn"
    /\ UNCHANGED <<recordVars, sliceVars, responseVars, conversionVars>>
    /\ op[p] = "ValidateAuto"
    /\ ~first[p].set
    /\ first' = [first EXCEPT ![p] = vret[p]]
    /\ IF ~vret[p].err.isNil
       THEN /\ ret' = [ret EXCEPT ![p] =
                          Ret(NilResp, Errorf("validation with auto env failed", vret[p].err))]
            /\ pc' = [pc EXCEPT ![p] = "done"]
            /\ UNCHANGED env
       ELSE IF ShouldRetry(vret[p].resp)
       THEN /\ env' = [env EXCEPT ![p] = Sandbox]
            /\ pc' = [pc EXCEPT ![p] = "encode"]
            /\ UNCHANGED ret
       ELSE /\ ret' = [ret EXCEPT ![p] = Ret(vret[p].resp, NilErr)]
            /\ pc' = [pc EXCEPT ![p] = "done"]
            /\ UNCHANGED env
    /\ UNCHANGED <<active, password, op, receipt, ctxDone, calls, body, res,
                   vret, retry, seen>>

\* retryResp, retryErr := v.Validate(ctx, receipt, Sandbox) has returned
ValidateAuto_Retry(p) ==
    /\ pc[p] = "vreturn"
    /\ UNCHANGED <<recordVars, sliceVars, responseVars, conversionVars>>
    /\ op[p] = "ValidateAuto"
    /\ first[p].set
    /\ retry' = [retry EXCEPT ![p] = vret[p]]
    /\ IF ~vret[p].err.isNil
       THEN ret' = [ret EXCEPT ![p] =
                       Ret(NilResp, RetryFailure(first[p].err, vret[p].err))]
       ELSE ret' = [ret EXCEPT ![p] = Ret(vret[p].resp, NilErr)]
    /\ pc' = [pc EXCEPT ![p] = "done"]
    /\ UNCHANGED <<active, password, op, receipt, env, ctxDone, calls, body,
                   res, vret, first, seen>>

----------------------------------------------------------------------------
(* The caller reads the status accessors of a returned response *)

Inspect(p) ==
    /\ pc[p] = "done"
    /\ UNCHANGED <<recordVars, sliceVars, responseVars, conversionVars>>
    /\ ~ret[p].resp.isNil
    /\ ~seen[p].set
    /\ seen' = [seen EXCEPT ![p] =
                   [set |-> TRUE,
                    valid |-> IsValid(ret[p].resp.Status),
                    err |-> StatusError(ret[p].resp.Status)]]
    /\ UNCHANGED <<active, password, op, pc, receipt, env, ctxDone, calls,
                   body, res, vret, first, retry, ret>>

----------------------------------------------------------------------------
(* Purchase record: derived state *)

\* timestamps of the records are 0..MaxTS milliseconds
MaxTS == 2

\* time.Millisecond, in nanoseconds
Millisecond == 1000000

\* SubscriptionStatus
Trial    == 0
Paid     == 1
Expired  == 2
Pending  == 3
Canceled == 4

\* the fields of InApp the methods read; a field that is absent from the
\* JSON keeps its zero value
InApp(tid, purchase, original, expires, cancelMS, reason, autoRenew, retryFlag, trial) ==
    [TransactionID          |-> tid,
     PurchaseDateMS         |-> purchase,
     OriginalPurchaseDateMS |-> original,
     ExpiresDateMS          |-> expires,
     CancellationDateMS     |-> cancelMS,
     CancellationReason     |-> reason,
     AutoRenewStatus        |-> autoRenew,
     IsInBillingRetryPeriod |-> retryFlag,
     IsTrialPeriod          |-> trial]

ZeroInApp == InApp(0, 0, 0, 0, 0, "", "", "", FALSE)

TimeStamps == 0..MaxTS

Flags == {"", "0", "1"}

\* the records whose lifecycle is looked at
LifecycleRecords ==
    {InApp(0, 0, 0, e, c, r, a, b, t) :
        e \in TimeStamps, c \in TimeStamps, r \in Flags, a \in Flags,
        b \in Flags, t \in BOOLEAN}

\* the instants time.Now() can give: on a millisecond and one nanosecond
\* later, never the epoch itself
Nows == {t * Millisecond + d : t \in 0..(MaxTS + 1), d \in {0, 1}} \ {0}

\* convertToTime: time.Unix(0, timeMS*int64(time.Millisecond)), as
\* nanoseconds since the epoch
convertToTime(timeMS) == timeMS * Millisecond

\* a Before that holds for equal instants as well
Before_OrEqual(t, u) == t <= u

\* time.Time.Before
Before(t, u) == t < u

\* an Expired that counts the instant of expiry as expired
InApp_Expired_AtOrBefore(i, t) == ~Before(t, convertToTime(i.ExpiresDateMS))

\* an Expired that holds for the millisecond after the expiry only
InApp_Expired_ForOneMillisecond(i, t) ==
    /\ Before(convertToTime(i.ExpiresDateMS), t)
    /\ ~Before(convertToTime(i.ExpiresDateMS + 1), t)

\* InApp.Expired, with t the value of time.Now()
InApp_Expired(i, t) == Before(convertToTime(i.ExpiresDateMS), t)

\* InApp.Trial
InApp_Trial(i) == i.IsTrialPeriod

\* InApp.Pending
InApp_Pending(i) ==
    IF i.IsInBillingRetryPeriod # "" /\ i.IsInBillingRetryPeriod = "0" THEN FALSE
    ELSE IF i.IsInBillingRetryPeriod # "" /\ i.IsInBillingRetryPeriod = "1" THEN TRUE
    ELSE FALSE

\* InApp.Canceled
InApp_Canceled(i) ==
    IF i.AutoRenewStatus # "" /\ i.AutoRenewStatus = "0" THEN TRUE
    ELSE IF i.AutoRenewStatus # "" /\ i.AutoRenewStatus = "1" THEN FALSE
    ELSE IF i.CancellationReason # "" THEN TRUE
    ELSE IF i.CancellationDateMS > 0 THEN TRUE
    ELSE FALSE

\* a Status that looks at the trial flag before the billing-retry flag
InApp_Status_TrialFirst(i, t) ==
    CASE InApp_Canceled(i)   -> Canceled
      [] InApp_Expired(i, t) -> Expired
      [] InApp_Trial(i)      -> Trial
      [] InApp_Pending(i)    -> Pending
      [] OTHER               -> Paid

\* InApp.Status: the first case that holds, in the order of the switch
InApp_Status(i, t) ==
    IF InApp_Canceled(i) THEN Canceled
    ELSE IF InApp_Expired(i, t) THEN Expired
    ELSE IF InApp_Pending(i) THEN Pending
    ELSE IF InApp_Trial(i) THEN Trial
    ELSE Paid

\* nothing was observed yet; prev is the observation before the last one:
\* when it was made and the status it gave
NoEarlier == [set |-> FALSE, at |-> 0, status |-> Paid]

NotObserved ==
    [set |-> FALSE, at |-> 0, canceled |-> FALSE, expired |-> FALSE,
     pending |-> FALSE, trial |-> FALSE, status |-> Paid, prev |-> NoEarlier]

Earlier(o) == [set |-> o.set, at |-> o.at, status |-> o.status]

\* the clock advances
Tick ==
    /\ \E t \in Nows : t > now /\ now' = t
    /\ UNCHANGED <<inapp, observed>>
    /\ UNCHANGED <<validatorVars, sliceVars, responseVars, conversionVars>>

\* the holder of the record calls Canceled(), Expired(), Pending(), Trial()
\* and Status() at the current instant
Observe ==
    /\ inapp \in LifecycleRecords
    /\ observed' = [set      |-> TRUE,
                    at       |-> now,
                    canceled |-> InApp_Canceled(inapp),
                    expired  |-> InApp_Expired(inapp, now),
                    pending  |-> InApp_Pending(inapp),
                    trial    |-> InApp_Trial(inapp),
                    status   |-> InApp_Status(inapp, now),
                    prev     |-> Earlier(observed)]
    /\ observed' # observed
    /\ UNCHANGED <<inapp, now>>
    /\ UNCHANGED <<validatorVars, sliceVars, responseVars, conversionVars>>

RecordIdle ==
    /\ inapp = ZeroInApp
    /\ now = 1
    /\ observed = NotObserved

----------------------------------------------------------------------------
(* Ordering *)

\* sequences of at most MaxLen records are sorted
MaxLen == 3

\* SortType
ByPurchaseDate         == 0
ByOriginalPurchaseDate == 1

\* a SortType value that is neither of the two
OtherSortType == 2

SortTypes == {ByPurchaseDate, ByOriginalPurchaseDate, OtherSortType}

\* Swap of byPurchaseDate and of byOriginalPurchaseDate (indexes from 1)
Swap(b, i, j) == [b EXCEPT ![i] = b[j], ![j] = b[i]]

\* a Less that puts the later purchase first
byPurchaseDate_Less_After(b, i, j) ==
    Before(convertToTime(b[j].PurchaseDateMS), convertToTime(b[i].PurchaseDateMS))

\* byPurchaseDate.Less
byPurchaseDate_Less(b, i, j) ==
    Before(convertToTime(b[i].PurchaseDateMS), convertToTime(b[j].PurchaseDateMS))

\* byOriginalPurchaseDate.Less
byOriginalPurchaseDate_Less(b, i, j) ==
    Before(convertToTime(b[i].PurchaseDateMS), convertToTime(b[j].PurchaseDateMS))

\* the Less of the sort.Interface that Sorted builds for a SortType
Less(by, b, i, j) ==
    IF by = ByPurchaseDate THEN byPurchaseDate_Less(b, i, j)
    ELSE byOriginalPurchaseDate_Less(b, i, j)

\* sort.Sort of the Go release the repository builds with (1.12), on at most
\* 12 elements: one pass of a shell sort with gap 6, then an insertion sort,
\* both over Less and Swap.
\* insertionSort: for i := a+1; i < b; i++ { for j := i; j > a &&
\* Less(j, j-1); j-- { Swap(j, j-1) } }
RECURSIVE insertionSortInner(_, _, _)
insertionSortInner(by, data, j) ==
    IF j > 1 /\ Less(by, data, j, j - 1)
    THEN insertionSortInner(by, Swap(data, j, j - 1), j - 1)
    ELSE data

RECURSIVE insertionSortOuter(_, _, _)
insertionSortOuter(by, data, i) ==
    IF i <= Len(data)
    THEN insertionSortOuter(by, insertionSortInner(by, data, i), i + 1)
    ELSE data

\* for i := a + 6; i < b; i++ { if Less(i, i-6) { Swap(i, i-6) } }
\* (indexes from 1 here)
RECURSIVE shellPass(_, _, _)
shellPass(by, data, i) ==
    IF i <= Len(data)
    THEN shellPass(by, IF Less(by, data, i, i - 6) THEN Swap(data, i, i - 6) ELSE data,
                   i + 1)
    ELSE data

sort_Sort(by, data) ==
    IF Len(data) > 1 THEN insertionSortOuter(by, shellPass(by, data, 7), 2) ELSE data

\* InApps.Sorted: sorts the receiver's elements in place and returns the
\* receiver; an unknown SortType leaves it alone
Sorted(i, by) ==
    IF by = ByPurchaseDate THEN sort_Sort(ByPurchaseDate, i)
    ELSE IF by = ByOriginalPurchaseDate THEN sort_Sort(ByOriginalPurchaseDate, i)
    ELSE i

\* what LatestInApp returns: nil, or a pointer to an element; a run that
\* indexes an empty slice panics
NilInApp == [kind |-> "nil", rec |-> ZeroInApp]

PtrInApp(r) == [kind |-> "ptr", rec |-> r]

PanicInApp == [kind |-> "panic", rec |-> ZeroInApp]

\* a LatestInApp without the length check
LatestInApp_NoGuard(i) ==
    IF Len(i) = 0 THEN PanicInApp ELSE PtrInApp(Sorted(i, ByOriginalPurchaseDate)[1])

\* InApps.LatestInApp: element 0 of the receiver sorted by original purchase date
LatestInApp(i) ==
    IF Len(i) <= 0 THEN NilInApp ELSE PtrInApp(Sorted(i, ByOriginalPurchaseDate)[1])

\* no call was made yet; prev tells which call came before the last one and
\* whether it moved a record
NoPrev == [op |-> "none", by |-> OtherSortType, moved |-> FALSE]

NoSortRes ==
    [op |-> "none", by |-> OtherSortType, input |-> <<>>, out |-> <<>>,
     latest |-> NilInApp, prev |-> NoPrev]

Prev(r) == [op |-> r.op, by |-> r.by, moved |-> r.input # r.out]

\* the sequences a response can carry: each element has its own TransactionID
InAppsOfLen(n) ==
    {[k \in 1..n |-> InApp(k, pd[k], od[k], 0, 0, "", "", "", FALSE)] :
        pd \in [1..n -> TimeStamps], od \in [1..n -> {0, 1}]}

\* longer sequences, of more than MaxLen and at most MaxLongLen records, whose
\* purchase timestamps are 0 or 1
MaxLongLen == 7

LongInApps ==
    UNION {{[k \in 1..n |-> InApp(k, pd[k], 0, 0, 0, "", "", "", FALSE)] :
               pd \in [1..n -> {0, 1}]} :
           n \in (MaxLen + 1)..MaxLongLen}

\* a Sorted that puts a copy of its receiver in order
CallerSliceAfterSorted_Copy(i, by) == i

\* the caller's slice after Sorted(by) has returned: the receiver of Sorted
\* is a copy of the slice header and shares the array of the caller's slice,
\* whose elements Swap exchanges
CallerSliceAfterSorted(i, by) == Sorted(i, by)

\* the holder of the sequence calls inapps.Sorted(by)
Call_Sorted(by) ==
    /\ sortRes' = [op |-> "Sorted", by |-> by, input |-> inapps,
                   out |-> Sorted(inapps, by), latest |-> NilInApp,
                   prev |-> Prev(sortRes)]
    /\ inapps' = CallerSliceAfterSorted(inapps, by)
    /\ sortRes' # sortRes
    /\ UNCHANGED <<validatorVars, recordVars, responseVars, conversionVars>>

\* the holder of the sequence calls inapps.LatestInApp()
Call_LatestInApp ==
    /\ sortRes' = [op |-> "LatestInApp", by |-> ByOriginalPurchaseDate,
                   input |-> inapps,
                   out |-> IF Len(inapps) <= 0 THEN inapps
                           ELSE Sorted(inapps, ByOriginalPurchaseDate),
                   latest |-> LatestInApp(inapps),
                   prev |-> Prev(sortRes)]
    /\ inapps' = IF Len(inapps) <= 0 THEN inapps
                  ELSE CallerSliceAfterSorted(inapps, ByOriginalPurchaseDate)
    /\ sortRes' # sortRes
    /\ UNCHANGED <<validatorVars, recordVars, responseVars, conversionVars>>

SliceIdle ==
    /\ inapps = <<>>
    /\ sortRes = NoSortRes

----------------------------------------------------------------------------
(* Decoded response: the values derived from it *)

\* one entry of pending_renewal_info
PendingRenewalInfo(autoRenewStatus) ==
    [ProductID |-> "", SubscriptionAutoRenewStatus |-> autoRenewStatus]

\* the fields of ValidationResponse its methods read, and the two lists next
\* to them; a field that is absent from the JSON keeps its zero value
ValidationResponse(status, environment, latestReceipt, latestReceiptInfo, pendingRenewalInfo) ==
    [Status             |-> status,
     Environment        |-> environment,
     LatestReceipt      |-> latestReceipt,
     LatestReceiptInfo  |-> latestReceiptInfo,
     PendingRenewalInfo |-> pendingRenewalInfo]

ZeroResponse == ValidationResponse(0, Production, "", <<>>, <<>>)

\* the responses whose methods are called
Responses ==
    {ValidationResponse(st, e, lr, lri, pri) :
        st \in StatusDomain, e \in {Production, Sandbox},
        lr \in {"", "bGF0ZXN0"},
        lri \in {<<>>, <<ZeroInApp>>},
        pri \in {<<>>, <<PendingRenewalInfo("1")>>}}

\* an IsRenewable that is content with one of the two
IsRenewable_Either(r) ==
    IF r.LatestReceipt # "" \/ Len(r.LatestReceiptInfo) > 0 THEN TRUE ELSE FALSE

\* ValidationResponse.IsRenewable
IsRenewable(r) ==
    IF r.LatestReceipt # "" /\ Len(r.LatestReceiptInfo) > 0 THEN TRUE ELSE FALSE

\* what a method of the response gave back: a bool, or an error
NoAnswer == [op |-> "none", bool |-> FALSE, err |-> NilErr, data |-> <<>>, before |-> Production]

Answer(o, b, e, d, prev) == [op |-> o, bool |-> b, err |-> e, data |-> d, before |-> prev]

\* the holder of the response calls IsRenewable()
Call_IsRenewable ==
    /\ answer' = Answer("IsRenewable", IsRenewable(decoded), NilErr, <<>>, decoded.Environment)
    /\ answer' # answer
    /\ UNCHANGED decoded
    /\ UNCHANGED <<validatorVars, recordVars, sliceVars, conversionVars>>

\* the error values of src/ios/validator.go, the file of ValidationStatus;
\* ErrMalformedJSON, ErrInternalDataAccess and ErrUnknown have the messages
\* of the values above
ErrMalformedReceiptData_Switch == NewError("the data in the receipt-data property was malformed or missing")
ErrNotAuthenticated_Switch     == NewError("the receipt could not be authenticated")
ErrIncorrectSecret_Switch      == NewError("the shared secret you provided does not match the shared secret on file for your account")
ErrServerNotAvailable_Switch   == NewError("the receipt server is not currently available")
ErrSandboxOnProduction_Switch  == NewError("this receipt is from the test environment, but it was sent to the production environment for verification. Send it to the test environment instead")
ErrProductionOnSandbox_Switch  == NewError("this receipt is from the production environment, but it was sent to the test environment for verification. Send it to the production environment instead")
ErrUnauthorizedReceipt_Switch  == NewError("this receipt could not be authorized. Treat this the same as if a purchase was never made")

\* ValidationResponse.ValidationStatus
ValidationStatus(status) ==
    CASE status = 0     -> NilErr
      [] status = 21000 -> ErrMalformedJSON
      [] status = 21002 -> ErrMalformedReceiptData_Switch
      [] status = 21003 -> ErrNotAuthenticated_Switch
      [] status = 21004 -> ErrIncorrectSecret_Switch
      [] status = 21005 -> ErrServerNotAvailable_Switch
      [] status = 21007 -> ErrSandboxOnProduction_Switch
      [] status = 21008 -> ErrProductionOnSandbox_Switch
      [] status = 21010 -> ErrUnauthorizedReceipt_Switch
      [] OTHER -> IF status >= 21100 /\ status <= 21199 THEN ErrInternalDataAccess
                  ELSE ErrUnknown

\* the holder of the response calls StatusError() and ValidationStatus()
Call_StatusMethods ==
    /\ answer' = Answer("Status", FALSE, StatusError(decoded.Status),
                        <<ValidationStatus(decoded.Status)>>, decoded.Environment)
    /\ answer' # answer
    /\ UNCHANGED decoded
    /\ UNCHANGED <<validatorVars, recordVars, sliceVars, conversionVars>>

\* JSON texts are sequences of at most MaxJSONLen of these tokens: a double
\* quote, a digit, the escape sequence of the digit 0, the literal null
MaxJSONLen == 3

JSONTokens == {"\"", "0", "1", "\\u0030", "null"}

JSONTexts == UNION {[1..n -> JSONTokens] : n \in 0..MaxJSONLen}

Digits == {"0", "1"}

\* the grammar of encoding/json on these tokens
IsJSONStringText(b) ==
    /\ Len(b) >= 2
    /\ b[1] = "\"" /\ b[Len(b)] = "\""
    /\ \A k \in 2..(Len(b) - 1) : b[k] # "\""

IsJSONNumberText(b) ==
    /\ Len(b) >= 1
    /\ \A k \in 1..Len(b) : b[k] \in Digits
    /\ Len(b) > 1 => b[1] # "0"

IsJSONNullText(b) == b = <<"null">>

\* the characters a string token stands for
Unquote(tok) == IF tok = "\\u0030" THEN "0" ELSE tok

\* var env string; json.Unmarshal(b, &env): the error, and env afterwards
json_Unmarshal_string(b) ==
    IF IsJSONStringText(b)
    THEN [err |-> NilErr, env |-> [k \in 1..(Len(b) - 2) |-> Unquote(b[k + 1])]]
    ELSE IF IsJSONNullText(b) THEN [err |-> NilErr, env |-> <<>>]
    ELSE IF IsJSONNumberText(b)
    THEN [err |-> NewError("json: cannot unmarshal number into Go value of type string"),
          env |-> <<>>]
    ELSE [err |-> NewError("invalid character"), env |-> <<>>]

\* an UnmarshalJSON that resets the receiver before it looks at the value
AppleEnv_UnmarshalJSON_Reset(e, b) ==
    LET u == json_Unmarshal_string(b)
    IN  IF ~u.err.isNil THEN [e |-> Production, err |-> u.err]
        ELSE IF u.env = <<"1">> THEN [e |-> Sandbox, err |-> NilErr]
        ELSE IF u.env = <<"0">> THEN [e |-> Production, err |-> NilErr]
        ELSE [e |-> Production,
              err |-> [isNil |-> FALSE,
                       msg |-> <<"can't unmarshall json value to AppleEnv type">> \o u.env]]

\* AppleEnv.UnmarshalJSON: the receiver and the error afterwards
AppleEnv_UnmarshalJSON(e, b) ==
    LET u == json_Unmarshal_string(b)
    IN  IF ~u.err.isNil THEN [e |-> e, err |-> u.err]
        ELSE IF u.env = <<"0">> THEN [e |-> Production, err |-> NilErr]
        ELSE IF u.env = <<"1">> THEN [e |-> Sandbox, err |-> NilErr]
        ELSE [e |-> e,
              err |-> [isNil |-> FALSE,
                       msg |-> <<"can't unmarshall json value to AppleEnv type">> \o u.env]]

\* the values the Environment field has before it is unmarshalled
AppleEnvs == {Production, Sandbox, AppleEnv(3)}

\* the holder of the response calls decoded.Environment.UnmarshalJSON(b)
Call_UnmarshalJSON(b) ==
    /\ LET u == AppleEnv_UnmarshalJSON(decoded.Environment, b)
       IN  /\ decoded' = [decoded EXCEPT !.Environment = u.e]
           /\ answer' = Answer("UnmarshalJSON", FALSE, u.err, b, decoded.Environment)
    /\ answer' # answer
    /\ UNCHANGED <<validatorVars, recordVars, sliceVars, conversionVars>>

ResponseIdle ==
    /\ decoded = ZeroResponse
    /\ answer = NoAnswer

----------------------------------------------------------------------------
(* Timestamp conversion on the 64-bit domain *)

\* TLC's integers are 32 bits wide: an int64 is written as four 16-bit
\* limbs, least significant first, in two's complement
LimbBase == 2^16

\* the int64 of a number in 0..2^31-1
SmallInt64(n) == <<n % LimbBase, (n \div LimbBase) % LimbBase, 0, 0>>

\* x * m in int64 arithmetic, which keeps the low 64 bits of the product;
\* m is in 0..2^31-1
MulInt64(x, m) ==
    LET m0 == m % LimbBase
        m1 == m \div LimbBase
        c0 == x[1] * m0
        c1 == x[2] * m0 + x[1] * m1 + (c0 \div LimbBase)
        c2 == x[3] * m0 + x[2] * m1 + (c1 \div LimbBase)
        c3 == x[4] * m0 + x[3] * m1 + (c2 \div LimbBase)
    IN  <<c0 % LimbBase, c1 % LimbBase, c2 % LimbBase, c3 % LimbBase>>

\* the limbs from the most significant down, the sign bit flipped, so that
\* the order of the tuples is the order of the signed values
SignedKey(x) == <<(x[4] + (LimbBase \div 2)) % LimbBase, x[3], x[2], x[1]>>

\* x < y for two int64
LessInt64(x, y) ==
    LET kx == SignedKey(x)
        ky == SignedKey(y)
    IN  \E k \in 1..4 : kx[k] < ky[k] /\ \A m \in 1..(k - 1) : kx[m] = ky[m]

\* convertToTime on the int64 domain: time.Unix(0, timeMS*int64(time.Millisecond)),
\* the instant named by its nanoseconds since the epoch (an int64)
convertToTime64(timeMS) == MulInt64(timeMS, Millisecond)

\* time.Time.Before for two instants convertToTime64 gave
Before64(t, u) == LessInt64(t, u)

\* the timestamps that are converted: around zero, the timestamp of the
\* repository's test (1527811200005), the last before and the first after
\* the product leaves the int64 range, on both sides (+-9223372036854,
\* +-9223372036855), 18446744073710, 2^58, and the ends of the int64 range
Stamps64 ==
    {SmallInt64(0), SmallInt64(1), SmallInt64(2),
     <<65535, 65535, 65535, 65535>>,
     <<54277, 47268, 355, 0>>,
     <<23286, 31696, 2147, 0>>,
     <<23287, 31696, 2147, 0>>,
     <<42250, 33839, 63388, 65535>>,
     <<42249, 33839, 63388, 65535>>,
     <<46574, 63392, 4294, 0>>,
     <<0, 0, 0, 1024>>,
     <<65535, 65535, 65535, 32767>>,
     <<0, 0, 0, 32768>>}

NotConverted == [set |-> FALSE, a |-> <<>>, b |-> <<>>, before |-> FALSE]

\* the two timestamps are converted and the results compared, as Less of
\* byPurchaseDate does
Call_convertToTime ==
    /\ instants' = [set |-> TRUE,
                    a |-> convertToTime64(stamps[1]),
                    b |-> convertToTime64(stamps[2]),
                    before |-> Before64(convertToTime64(stamps[1]),
                                        convertToTime64(stamps[2]))]
    /\ instants' # instants
    /\ UNCHANGED stamps
    /\ UNCHANGED <<validatorVars, recordVars, sliceVars, responseVars>>

ConversionIdle ==
    /\ stamps = <<SmallInt64(0), SmallInt64(0)>>
    /\ instants = NotConverted

----------------------------------------------------------------------------
(* Specification *)

\* NewValidator: the default password is "", WithPassword sets another
ValidatorInit ==
    /\ password \in Passwords
    /\ op = [p \in Procs |-> "none"]
    /\ pc = [p \in Procs |-> "idle"]
    /\ receipt = [p \in Procs |-> ""]
    /\ env = [p \in Procs |-> NoEnv]
    /\ ctxDone = [p \in Procs |-> FALSE]
    /\ calls = [p \in Procs |-> <<>>]
    /\ body = [p \in Procs |-> {}]
    /\ res = [p \in Procs |-> NoRes]
    /\ vret = [p \in Procs |-> NoRet]
    /\ first = [p \in Procs |-> NoRet]
    /\ retry = [p \in Procs |-> NoRet]
    /\ ret = [p \in Procs |-> NoRet]
    /\ seen = [p \in Procs |-> NotSeen]

\* one caller works with the Validator; no purchase record is looked at
Init ==
    /\ active = {1}
    /\ ValidatorInit
    /\ RecordIdle
    /\ SliceIdle
    /\ ResponseIdle
    /\ ConversionIdle

Next ==
    \E p \in Procs :
        \/ \E r \in Receipts, e \in Envs : Invoke_Validate(p, r, e)
        \/ \E r \in Receipts : Invoke_ValidateAuto(p, r)
        \/ Cancel(p)
        \/ Encode(p)
        \/ NewRequest(p)
        \/ Do(p)
        \/ DoReturn(p)
        \/ Decode(p)
        \/ Validate_Return(p)
        \/ ValidateAuto_First(p)
        \/ ValidateAuto_Retry(p)
        \/ Inspect(p)

Spec == Init /\ [][Next]_vars

\* two callers call ValidateAuto on the one Validator at the same time
InitConcurrent ==
    /\ active = Procs
    /\ ValidatorInit
    /\ RecordIdle
    /\ SliceIdle
    /\ ResponseIdle
    /\ ConversionIdle

NextConcurrent ==
    \E p \in Procs :
        \/ \E r \in Receipts : Invoke_ValidateAuto(p, r)
        \/ Cancel(p)
        \/ Encode(p)
        \/ NewRequest(p)
        \/ Do(p)
        \/ DoReturn(p)
        \/ Decode(p)
        \/ ValidateAuto_First(p)
        \/ ValidateAuto_Retry(p)
        \/ Inspect(p)

SpecConcurrent == InitConcurrent /\ [][NextConcurrent]_vars

\* no caller of the Validator is at work
ValidatorIdle ==
    /\ active = {}
    /\ password = ""
    /\ ValidatorInit

\* a purchase record is observed while time passes
InitInApp ==
    /\ ValidatorIdle
    /\ SliceIdle
    /\ inapp \in LifecycleRecords
    /\ now \in Nows
    /\ observed = NotObserved
    /\ ResponseIdle
    /\ ConversionIdle

NextInApp == Tick \/ Observe

SpecInApp == InitInApp /\ [][NextInApp]_vars

\* a sequence of purchase records is sorted and asked for its latest record
InitSort ==
    /\ ValidatorIdle
    /\ RecordIdle
    /\ inapps \in UNION {InAppsOfLen(n) : n \in 0..MaxLen} \cup LongInApps
    /\ sortRes = NoSortRes
    /\ ResponseIdle
    /\ ConversionIdle

NextSort ==
    \/ \E by \in SortTypes : Call_Sorted(by)
    \/ Call_LatestInApp

SpecSort == InitSort /\ [][NextSort]_vars

\* the methods of a decoded response are called
InitResponse ==
    /\ ValidatorIdle
    /\ RecordIdle
    /\ SliceIdle
    /\ ConversionIdle
    /\ decoded \in Responses
    /\ answer = NoAnswer

NextResponse ==
    \/ Call_IsRenewable
    \/ Call_StatusMethods

SpecResponse == InitResponse /\ [][NextResponse]_vars

\* pairs of timestamps are converted to instants
InitConversion ==
    /\ ValidatorIdle
    /\ RecordIdle
    /\ SliceIdle
    /\ ResponseIdle
    /\ stamps \in Stamps64 \X Stamps64
    /\ instants = NotConverted

NextConversion == Call_convertToTime

SpecConversion == InitConversion /\ [][NextConversion]_vars

\* the Environment field of a response is unmarshalled from JSON texts
InitEnvironment ==
    /\ ValidatorIdle
    /\ RecordIdle
    /\ SliceIdle
    /\ ConversionIdle
    /\ decoded \in {ValidationResponse(0, e, "", <<>>, <<>>) : e \in AppleEnvs}
    /\ answer = NoAnswer

NextEnvironment == \E b \in JSONTexts : Call_UnmarshalJSON(b)

SpecEnvironment == InitEnvironment /\ [][NextEnvironment]_vars

----------------------------------------------------------------------------
(* Properties *)

\* the verification endpoints of the App Store, as the documentation of
\* ValidationRequest gives them
AppStoreSandboxURL    == "https://sandbox.itunes.apple.com/verifyReceipt"
AppStoreProductionURL == "https://buy.itunes.apple.com/verifyReceipt"

Done(p) == pc[p] = "done"

Auto(p) == op[p] = "ValidateAuto"

\* ValidateAuto has returned and its first call came back with a decoded response
FirstDecoded(p) ==
    Auto(p) /\ Done(p) /\ first[p].set /\ first[p].err.isNil /\ ~first[p].resp.isNil

\* ValidateAuto has returned and its first call came back with an error
FirstFailed(p) == Auto(p) /\ Done(p) /\ first[p].set /\ ~first[p].err.isNil

\* ValidateAuto has returned and its retry came back with an error
RetryFailed(p) == Auto(p) /\ Done(p) /\ retry[p].set /\ ~retry[p].err.isNil

\* message m ends with the message c
EndsWith(m, c) ==
    /\ Len(c) <= Len(m)
    /\ SubSeq(m, Len(m) - Len(c) + 1, Len(m)) = c

\* C1: when the first call of ValidateAuto returns a decoded response with
\* status 21008, ValidateAuto makes exactly one further call, to the sandbox
\* endpoint, and returns the second response with a nil error whatever its
\* status is.
C1_RetryOnceAgainstSandbox ==
    \A p \in Procs :
        (FirstDecoded(p) /\ first[p].resp.Status = 21008) =>
            /\ Len(calls[p]) = 2
            /\ calls[p][2].url = AppStoreSandboxURL
            /\ retry[p].set
            /\ (retry[p].err.isNil => ret[p] = Ret(retry[p].resp, NilErr))

\* C2: when the first call of ValidateAuto returns a decoded response whose
\* status is not 21008 (0, 21007 or any other), ValidateAuto makes no second
\* call and returns that very response with a nil error.
C2_NoRetryOtherwise ==
    \A p \in Procs :
        (FirstDecoded(p) /\ first[p].resp.Status # 21008) =>
            /\ Len(calls[p]) = 1
            /\ ~retry[p].set
            /\ ret[p] = Ret(first[p].resp, NilErr)
            /\ ret[p].resp.reqNo = 1

C2_Witness ==
    \E p \in Procs :
        /\ FirstDecoded(p)
        /\ first[p].resp.Status = 21007
        /\ ret[p] = Ret(first[p].resp, NilErr)

\* C3: ValidateAuto makes at most two network calls; the first targets the
\* production endpoint, a second one targets the sandbox endpoint and starts
\* only after the first has returned; there is no third call.
C3_AtMostTwoCallsProductionFirst ==
    \A p \in Procs :
        Auto(p) =>
            /\ Len(calls[p]) <= 2
            /\ (Len(calls[p]) >= 1 => calls[p][1].url = AppStoreProductionURL)
            /\ (Len(calls[p]) = 2 =>
                    /\ calls[p][2].url = AppStoreSandboxURL
                    /\ calls[p][1].ctx # "pending"
                    /\ first[p].set)

\* C4: if the first call of ValidateAuto fails (encoding, request
\* construction, transport or decoding), ValidateAuto returns a nil response
\* and a non-nil error and makes no call to the sandbox endpoint.
C4_FirstFailureShortCircuits ==
    \A p \in Procs :
        FirstFailed(p) =>
            /\ ret[p].resp.isNil
            /\ ~ret[p].err.isNil
            /\ \A i \in 1..Len(calls[p]) : calls[p][i].url # AppStoreSandboxURL

\* C5: if the sandbox retry of ValidateAuto fails, ValidateAuto returns a nil
\* response and an error that carries the failure of the retry call itself.
C5_RetryFailureCarried ==
    \A p \in Procs :
        RetryFailed(p) =>
            /\ ret[p].resp.isNil
            /\ ~ret[p].err.isNil
            /\ EndsWith(ret[p].err.msg, retry[p].err.msg)

\* C6: every environment abstraction resolves production to
\* https://buy.itunes.apple.com/verifyReceipt, sandbox to
\* https://sandbox.itunes.apple.com/verifyReceipt and a custom environment to
\* the URL the caller supplied: each request goes to the URL of its
\* environment.
C6_EndpointResolution ==
    \A p \in Procs : \A i \in 1..Len(calls[p]) :
        LET c == calls[p][i]
        IN  /\ c.env \in {Production, EnvProduction} => c.url = AppStoreProductionURL
            /\ c.env \in {Sandbox, EnvSandbox} => c.url = AppStoreSandboxURL
            /\ c.env.type = "endpointEnv" => c.url = c.env.url

\* the named conditions of the status table
NamedErrors ==
    {ErrMalformedJSON, ErrMalformedReceiptData, ErrNotAuthenticated,
     ErrIncorrectSecret, ErrServerNotAvailable, ErrSubscriptionExpired,
     ErrSandboxOnProduction, ErrProductionOnSandbox, ErrUnauthorizedReceipt,
     ErrInternalDataAccess, ErrUnknown}

\* the status table as the specification states it
StatusTable(status) ==
    CASE status = 0     -> NilErr
      [] status = 21000 -> ErrMalformedJSON
      [] status = 21002 -> ErrMalformedReceiptData
      [] status = 21003 -> ErrNotAuthenticated
      [] status = 21004 -> ErrIncorrectSecret
      [] status = 21005 -> ErrServerNotAvailable
      [] status = 21006 -> ErrSubscriptionExpired
      [] status = 21007 -> ErrSandboxOnProduction
      [] status = 21008 -> ErrProductionOnSandbox
      [] status = 21010 -> ErrUnauthorizedReceipt
      [] status \in 21100..21199 -> ErrInternalDataAccess
      [] OTHER -> ErrUnknown

\* C7: StatusError is a total function of the status: 0 yields nil, each of
\* the nine discrete codes its own named error, every status in 21100..21199
\* ErrInternalDataAccess and every other integer ErrUnknown; the named errors
\* are pairwise distinct.
C7_StatusErrorTable ==
    /\ Cardinality(NamedErrors) = 11
    /\ NilErr \notin NamedErrors
    /\ \A p \in Procs :
          seen[p].set =>
              /\ seen[p].err = StatusTable(ret[p].resp.Status)
              /\ seen[p].err \in NamedErrors \cup {NilErr}
              /\ (seen[p].err = NilErr <=> ret[p].resp.Status = 0)
              /\ (seen[p].valid <=> ret[p].resp.Status = 0)

C7_Witness ==
    \E p \in Procs :
        /\ seen[p].set
        /\ ret[p].resp.Status = 21199
        /\ seen[p].err = ErrInternalDataAccess

\* C8: Validate never turns a remote rejection into an error: when the reply
\* decodes, Validate returns the decoded response with a nil error for every
\* status; a response is never returned together with an error.
C8_RejectionIsNotAnError ==
    \A p \in Procs :
        (op[p] = "Validate" /\ Done(p)) =>
            /\ (res[p].kind = "json" /\ ~ctxDone[p]) =>
                   ret[p] = Ret(Response(res[p].Status, 1), NilErr)
            /\ ~ret[p].resp.isNil =>
                   (ret[p].err.isNil /\ ret[p].resp.Status = res[p].Status)

C8_Witness ==
    \E p \in Procs :
        /\ op[p] = "Validate" /\ Done(p)
        /\ ret[p] = Ret(Response(21002, 1), NilErr)
        /\ seen[p].set /\ seen[p].err = ErrMalformedReceiptData

\* C9 as stated: every invocation of Validate makes exactly one outbound
\* call, whatever its outcome.
C9_ExactlyOneCall ==
    \A p \in Procs :
        (op[p] = "Validate" /\ Done(p)) => Len(calls[p]) = 1

\* the phases of Validate that fail before anything is sent
UnsentPhases == {"body payload encoding error", "http request creation error"}

\* C9, amended: every invocation of Validate makes at most one outbound
\* call; none when encoding the payload or constructing the request failed,
\* exactly one in every other outcome.
C9_AtMostOneCall ==
    \A p \in Procs :
        op[p] = "Validate" =>
            /\ Len(calls[p]) <= 1
            /\ Done(p) =>
                  (Len(calls[p]) = 0 <=>
                      (~ret[p].err.isNil /\ ret[p].err.msg[1] \in UnsentPhases))
            /\ (Done(p) /\ Endpoint(env[p]) = MalformedURL) => Len(calls[p]) = 0

C9_Witness ==
    \E p \in Procs :
        /\ op[p] = "Validate" /\ Done(p)
        /\ Len(calls[p]) = 0
        /\ ret[p].resp.isNil
        /\ ret[p].err.msg[1] = "http request creation error"

\* C10: a call whose context was done before client.Do returned yields no
\* response: Validate returns nil and a transport error; in ValidateAuto a
\* cancellation between the first call and the retry makes the retry fail
\* and no response is returned.
C10_CanceledCallYieldsNoResponse ==
    \A p \in Procs :
        (Done(p) /\ \E i \in 1..Len(calls[p]) : calls[p][i].ctx = "done") =>
            /\ ret[p].resp.isNil
            /\ ~ret[p].err.isNil
            /\ op[p] = "Validate" => ret[p].err.msg[1] = "http request failure"
            /\ (Auto(p) /\ Len(calls[p]) = 2) =>
                   (retry[p].set /\ retry[p].resp.isNil /\ ~retry[p].err.isNil)

C10_Witness ==
    \E p \in Procs :
        /\ Auto(p) /\ Done(p)
        /\ Len(calls[p]) = 2
        /\ calls[p][1].ctx = "live"
        /\ calls[p][2].ctx = "done"
        /\ ret[p].resp.isNil

\* C11: Validate returns exactly one of a response and an error: on an
\* encoding, request-construction, transport or decode failure the response
\* is nil (what was decoded so far is dropped), on success the error is nil;
\* a decode failure is not reported as a transport failure.
C11_ResponseXorError ==
    \A p \in Procs :
        (op[p] = "Validate" /\ Done(p)) =>
            /\ ret[p].resp.isNil <=> ~ret[p].err.isNil
            /\ res[p].kind \in {"garbage", "badfield"} =>
                   /\ ret[p].resp.isNil
                   /\ ~ret[p].err.isNil
                   /\ ret[p].err.msg[1] # "http request failure"
            /\ (Len(calls[p]) = 1 /\ res[p].kind = "none") =>
                   /\ ret[p].resp.isNil
                   /\ ret[p].err.msg[1] = "http request failure"
            /\ Len(calls[p]) = 0 => (ret[p].resp.isNil /\ ret[p].err.msg[1] \in UnsentPhases)

C11_Witness ==
    \E p \in Procs :
        /\ op[p] = "Validate" /\ Done(p)
        /\ res[p] = [kind |-> "badfield", Status |-> 21002]
        /\ ret[p].resp.isNil
        /\ ret[p].err = NewError("can't unmarshall json value")

----------------------------------------------------------------------------
(* Lifecycle status of a purchase record *)

Statuses == {Trial, Paid, Expired, Pending, Canceled}

\* C12: Status returns the first rule that holds in the order Canceled,
\* Expired, Pending, Trial, Paid: Canceled whenever Canceled() holds (always
\* for auto-renew status "0"), Expired only if not canceled, Pending only if
\* neither canceled nor expired even with the trial flag set, Trial only if
\* none of the three hold, Paid otherwise; the result is one of the five values
C12_StatusPrecedence ==
    observed.set =>
        /\ observed.status \in Statuses
        /\ observed.canceled => observed.status = Canceled
        /\ inapp.AutoRenewStatus = "0" => observed.status = Canceled
        /\ (~observed.canceled /\ observed.expired) => observed.status = Expired
        /\ (~observed.canceled /\ ~observed.expired /\ observed.pending)
               => observed.status = Pending
        /\ (~observed.canceled /\ ~observed.expired /\ ~observed.pending
                /\ observed.trial) => observed.status = Trial
        /\ (~observed.canceled /\ ~observed.expired /\ ~observed.pending
                /\ ~observed.trial) => observed.status = Paid

\* a record in billing retry with the trial flag set, neither canceled nor
\* expired, was given the status Pending
C12_Witness ==
    /\ observed.set
    /\ ~observed.canceled /\ ~observed.expired
    /\ observed.pending /\ observed.trial
    /\ observed.status = Pending

\* C13: Canceled() is true exactly when auto-renew status is "0", or a
\* cancellation reason is present, or the cancellation timestamp is greater
\* than 0; the last two count whatever the auto-renew status is, "1" included
C13_CanceledIffAnyMarker ==
    observed.set =>
        (observed.canceled <=>
            \/ inapp.AutoRenewStatus = "0"
            \/ inapp.CancellationReason # ""
            \/ inapp.CancellationDateMS > 0)

\* the record carries no renewal field: no expiration timestamp, no
\* auto-renew status, no billing-retry flag, no cancellation field
NoRenewalFields(i) ==
    /\ i.ExpiresDateMS = 0
    /\ i.AutoRenewStatus = ""
    /\ i.IsInBillingRetryPeriod = ""
    /\ i.CancellationReason = ""
    /\ i.CancellationDateMS = 0

\* C14: for a record without renewal fields (a one-time purchase) Canceled(),
\* Expired() and Pending() are false and Status() is Paid, or Trial if the
\* trial flag is set
C14_OneTimePurchaseIsPaid ==
    (observed.set /\ NoRenewalFields(inapp)) =>
        /\ ~observed.canceled
        /\ ~observed.expired
        /\ ~observed.pending
        /\ observed.status = (IF inapp.IsTrialPeriod THEN Trial ELSE Paid)

\* the instant, in nanoseconds since the epoch, at which the record expires
ExpirationInstant(i) == i.ExpiresDateMS * Millisecond

NoCancellationMarkers(i) ==
    /\ i.AutoRenewStatus # "0"
    /\ i.CancellationReason = ""
    /\ i.CancellationDateMS = 0

\* C15: Expired() is true exactly when the expiration instant is strictly
\* before the current time, so not when the two are equal; a record whose
\* expiration is in the past and that has no cancellation marker has the
\* status Expired
C15_ExpiredIffStrictlyBeforeNow ==
    observed.set =>
        /\ observed.expired <=> ExpirationInstant(inapp) < observed.at
        /\ ExpirationInstant(inapp) = observed.at => ~observed.expired
        /\ (ExpirationInstant(inapp) < observed.at /\ NoCancellationMarkers(inapp))
               => observed.status = Expired

\* Expired() was called at the very instant of expiry and returned false
C15_Witness ==
    /\ observed.set
    /\ inapp.ExpiresDateMS > 0
    /\ ExpirationInstant(inapp) = observed.at
    /\ ~observed.expired

----------------------------------------------------------------------------
(* Ordering of purchase records *)

\* Sorted(by) was called and has returned
SortedWith(by) == sortRes.op = "Sorted" /\ sortRes.by = by

\* q holds the records of r, each once (a TransactionID names one record of r)
IsPermutation(q, r) ==
    /\ Len(q) = Len(r)
    /\ \A k \in 1..Len(r) : \E m \in 1..Len(q) : q[m] = r[k]
    /\ \A k, m \in 1..Len(q) : k # m => q[k].TransactionID # q[m].TransactionID

PurchaseDates(q) == {q[k].PurchaseDateMS : k \in 1..Len(q)}

OriginalPurchaseDates(q) == {q[k].OriginalPurchaseDateMS : k \in 1..Len(q)}

SetMax(S) == CHOOSE x \in S : \A y \in S : y <= x

SetMin(S) == CHOOSE x \in S : \A y \in S : x <= y

C17_SortedByOriginalPurchaseDate ==
    SortedWith(ByOriginalPurchaseDate) =>
        /\ IsPermutation(sortRes.out, sortRes.input)
        /\ \A k \in 1..(Len(sortRes.out) - 1) :
               sortRes.out[k].OriginalPurchaseDateMS
                   <= sortRes.out[k + 1].OriginalPurchaseDateMS

\* the timestamps the key of the last Sorted call names
KeyDates(q) ==
    IF sortRes.by = ByPurchaseDate THEN PurchaseDates(q) ELSE OriginalPurchaseDates(q)

KeyDate(r) ==
    IF sortRes.by = ByPurchaseDate THEN r.PurchaseDateMS ELSE r.OriginalPurchaseDateMS

\* C18: after Sorted(ByPurchaseDate) and after Sorted(ByOriginalPurchaseDate)
\* on a non-empty sequence the first element of the result has the maximum
\* timestamp of the sequence and the last element the minimum
C18_FirstIsMaxLastIsMin ==
    ((SortedWith(ByPurchaseDate) \/ SortedWith(ByOriginalPurchaseDate))
         /\ Len(sortRes.input) > 0) =>
        /\ KeyDate(sortRes.out[1]) = SetMax(KeyDates(sortRes.input))
        /\ KeyDate(sortRes.out[Len(sortRes.out)]) = SetMin(KeyDates(sortRes.input))

\* LatestInApp was called and has returned
LatestCalled == sortRes.op = "LatestInApp"

\* C19: for a non-empty sequence LatestInApp returns a record of the sequence
\* with the maximum original-purchase timestamp
C19_LatestHasMaxOriginalPurchaseDate ==
    (LatestCalled /\ Len(sortRes.input) > 0) =>
        /\ sortRes.latest.kind = "ptr"
        /\ \E k \in 1..Len(sortRes.input) : sortRes.input[k] = sortRes.latest.rec
        /\ sortRes.latest.rec.OriginalPurchaseDateMS
               = SetMax(OriginalPurchaseDates(sortRes.input))

\* C20: on an empty sequence LatestInApp returns nil and does not panic, and
\* Sorted returns an empty sequence
C20_EmptySequence ==
    /\ (LatestCalled /\ Len(sortRes.input) = 0) =>
           /\ sortRes.latest = NilInApp
           /\ inapps = <<>>
    /\ (sortRes.op = "Sorted" /\ Len(sortRes.input) = 0) => sortRes.out = <<>>

\* LatestInApp was called on an empty sequence and returned nil
C20_Witness ==
    /\ LatestCalled
    /\ sortRes.input = <<>>
    /\ sortRes.latest.kind = "nil"

----------------------------------------------------------------------------
(* Values derived from a decoded response *)

\* C21: IsRenewable() is true exactly when the response has a non-empty
\* latest receipt and a non-empty list of latest renewal records
\* (latest_receipt_info); with both empty, or with only one of the two
\* present, the response is not renewable
C21_RenewableIffBothPresent ==
    answer.op = "IsRenewable" =>
        /\ answer.bool <=>
               (decoded.LatestReceipt # "" /\ decoded.LatestReceiptInfo # <<>>)
        /\ (decoded.LatestReceipt = "" /\ decoded.LatestReceiptInfo = <<>>)
               => ~answer.bool
        /\ (decoded.LatestReceipt = "" /\ decoded.LatestReceiptInfo # <<>>)
               => ~answer.bool
        /\ (decoded.LatestReceipt # "" /\ decoded.LatestReceiptInfo = <<>>)
               => ~answer.bool

\* a response with a latest receipt and pending renewals but without latest
\* renewal records was asked and is not renewable
C21_Witness ==
    /\ answer.op = "IsRenewable"
    /\ decoded.LatestReceipt # ""
    /\ decoded.LatestReceiptInfo = <<>>
    /\ decoded.PendingRenewalInfo # <<>>
    /\ ~answer.bool

----------------------------------------------------------------------------
(* Request payload *)

HasKey(b, k) == \E kv \in b : kv[1] = k

\* C22: the payload Validate builds always has the receipt-data key, has the
\* password key exactly when the Validator's shared secret is non-empty (and
\* then with that secret, never with an empty string), and never has
\* exclude-old-transactions set to false
C22_PayloadOmitsEmptyPassword ==
    \A p \in Procs :
        body[p] # {} =>
            /\ <<"receipt-data", receipt[p]>> \in body[p]
            /\ HasKey(body[p], "password") <=> password # ""
            /\ \A kv \in body[p] : kv[1] = "password" => kv[2] = password /\ kv[2] # ""
            /\ <<"exclude-old-transactions", "false">> \notin body[p]
            /\ \A i \in 1..Len(calls[p]) :
                   /\ HasKey(calls[p][i].body, "receipt-data")
                   /\ HasKey(calls[p][i].body, "password") <=> password # ""
                   /\ <<"exclude-old-transactions", "false">> \notin calls[p][i].body

\* a Validator without shared secret has sent a payload that has the
\* receipt-data key only
C22_Witness ==
    \E p \in Procs :
        /\ password = ""
        /\ Len(calls[p]) > 0
        /\ calls[p][1].body = {<<"receipt-data", receipt[p]>>}

----------------------------------------------------------------------------
(* Concurrent calls on one Validator *)

\* what ValidateAuto returns, given what its own Validate calls returned
AutoResult(f, r) ==
    IF ~f.err.isNil
    THEN Ret(NilResp, Errorf("validation with auto env failed", f.err))
    ELSE IF ShouldRetry(f.resp)
    THEN IF ~r.err.isNil THEN Ret(NilResp, RetryFailure(f.err, r.err))
         ELSE Ret(r.resp, NilErr)
    ELSE Ret(f.resp, NilErr)

\* caller p is as far as it is through its own steps only
OwnProgress(p) ==
    /\ Len(calls[p]) <= 2
    /\ first[p].set => (first[p].resp.isNil \/ first[p].resp.reqNo = 1)
    /\ retry[p].set => (retry[p].resp.isNil \/ retry[p].resp.reqNo = 2)
    /\ (vret[p].set /\ ~ctxDone[p]) => ~EndsWith(vret[p].err.msg, <<"context canceled">>)
    /\ Done(p) => ret[p] = AutoResult(first[p], retry[p])

\* C23: concurrent calls on one Validator are independent: no step writes the
\* Validator's password, and under every interleaving of two ValidateAuto
\* calls each call makes at most two requests and returns what its own
\* Validate calls, answered by the replies to its own requests, determine
C23_ConcurrentCallsIndependent ==
    /\ [][password' = password]_vars
    /\ [](\A p \in Procs : OwnProgress(p))

\* caller 1 has returned the response of its retry while the call of
\* caller 2, whose context is canceled, is in flight
C23_Witness ==
    /\ active = Procs
    /\ Done(1) /\ ~ctxDone[1] /\ Len(calls[1]) = 2 /\ ~ret[1].resp.isNil
    /\ pc[2] = "await" /\ ctxDone[2]

\* the text is a JSON string that stands for the characters v
IsStringOf(b, v) ==
    /\ Len(b) = Len(v) + 2
    /\ b[1] = "\"" /\ b[Len(b)] = "\""
    /\ \A k \in 1..Len(v) : b[k + 1] # "\"" /\ Unquote(b[k + 1]) = v[k]

IsString(b) ==
    /\ Len(b) >= 2
    /\ b[1] = "\"" /\ b[Len(b)] = "\""
    /\ \A k \in 2..(Len(b) - 1) : b[k] # "\""

\* C24: UnmarshalJSON makes the receiver Production for the JSON string "0"
\* and Sandbox for the JSON string "1" and returns nil; for every other JSON
\* string it returns an error and leaves the receiver as it was
C24_UnmarshalJSON ==
    answer.op = "UnmarshalJSON" =>
        /\ IsStringOf(answer.data, <<"0">>)
               => (answer.err.isNil /\ decoded.Environment = Production)
        /\ IsStringOf(answer.data, <<"1">>)
               => (answer.err.isNil /\ decoded.Environment = Sandbox)
        /\ (/\ IsString(answer.data)
            /\ ~IsStringOf(answer.data, <<"0">>)
            /\ ~IsStringOf(answer.data, <<"1">>))
               => (~answer.err.isNil /\ decoded.Environment = answer.before)

\* a receiver that was Sandbox was given the JSON string "null" (the four
\* letters in quotes): an error came back and the receiver is still Sandbox
C24_Witness ==
    /\ answer.op = "UnmarshalJSON"
    /\ answer.data = <<"\"", "null", "\"">>
    /\ answer.before = Sandbox
    /\ ~answer.err.isNil
    /\ decoded.Environment = Sandbox

\* the place of record r in sequence q
IndexOf(q, r) == CHOOSE k \in 1..Len(q) : q[k] = r

\* C25: Sorted is stable for both keys: two records with equal timestamps
\* are in the result in the order they had in the input
C25_SortedIsStable ==
    (SortedWith(ByPurchaseDate) \/ SortedWith(ByOriginalPurchaseDate)) =>
        \A k, m \in 1..Len(sortRes.input) :
            (k < m /\ KeyDate(sortRes.input[k]) = KeyDate(sortRes.input[m]))
                => IndexOf(sortRes.out, sortRes.input[k])
                       < IndexOf(sortRes.out, sortRes.input[m])

\* the same for the purchase-date key alone
StableByPurchaseDate ==
    SortedWith(ByPurchaseDate) =>
        \A k, m \in 1..Len(sortRes.input) :
            (k < m /\ sortRes.input[k].PurchaseDateMS = sortRes.input[m].PurchaseDateMS)
                => IndexOf(sortRes.out, sortRes.input[k])
                       < IndexOf(sortRes.out, sortRes.input[m])

----------------------------------------------------------------------------
(* Timestamp conversion *)

\* on timestamps small enough for both, the conversion on limbs gives what
\* the conversion on numbers gives
ConversionsAgree ==
    \A n \in 0..2147 : convertToTime64(SmallInt64(n)) = SmallInt64(convertToTime(n))

\* C27: the conversion is one-to-one and keeps the order on the whole int64
\* domain: of two timestamps a < b the instant of a is before the instant of
\* b, and the comparison of the instants, as Expired and the sort comparators
\* make it, is the comparison of a and b
C27_ConversionKeepsOrder ==
    instants.set =>
        /\ stamps[1] # stamps[2] => instants.a # instants.b
        /\ LessInt64(stamps[1], stamps[2]) <=> instants.before

\* the timestamps up to 9223372036854 ms either side of the epoch
InNoWrapRange(x) ==
    /\ ~LessInt64(<<23286, 31696, 2147, 0>>, x)
    /\ ~LessInt64(x, <<42250, 33839, 63388, 65535>>)

\* within that range the conversion keeps the order
ConversionKeepsOrderInRange ==
    (instants.set /\ InNoWrapRange(stamps[1]) /\ InNoWrapRange(stamps[2])) =>
        /\ stamps[1] # stamps[2] => instants.a # instants.b
        /\ LessInt64(stamps[1], stamps[2]) <=> instants.before

----------------------------------------------------------------------------
(* The two encodings of the status table *)

\* the name of the condition an error value stands for, in either file
ConditionOf(e) ==
    CASE e.isNil -> "nil"
      [] e = ErrMalformedJSON -> "ErrMalformedJSON"
      [] e \in {ErrMalformedReceiptData, ErrMalformedReceiptData_Switch}
             -> "ErrMalformedReceiptData"
      [] e \in {ErrNotAuthenticated, ErrNotAuthenticated_Switch} -> "ErrNotAuthenticated"
      [] e \in {ErrIncorrectSecret, ErrIncorrectSecret_Switch} -> "ErrIncorrectSecret"
      [] e \in {ErrServerNotAvailable, ErrServerNotAvailable_Switch}
             -> "ErrServerNotAvailable"
      [] e = ErrSubscriptionExpired -> "ErrSubscriptionExpired"
      [] e \in {ErrSandboxOnProduction, ErrSandboxOnProduction_Switch}
             -> "ErrSandboxOnProduction"
      [] e \in {ErrProductionOnSandbox, ErrProductionOnSandbox_Switch}
             -> "ErrProductionOnSandbox"
      [] e \in {ErrUnauthorizedReceipt, ErrUnauthorizedReceipt_Switch}
             -> "ErrUnauthorizedReceipt"
      [] e = ErrInternalDataAccess -> "ErrInternalDataAccess"
      [] e = ErrUnknown -> "ErrUnknown"

\* C28: for every status the switch of ValidationStatus and the table of
\* StatusError give the same classification: both nil, or both the same
\* named condition; so for 21006 as well
C28_StatusEncodingsAgree ==
    answer.op = "Status" =>
        ConditionOf(answer.err) = ConditionOf(answer.data[1])

\* the two agree on every status but 21006
StatusEncodingsAgreeBut21006 ==
    (answer.op = "Status" /\ decoded.Status # 21006) =>
        ConditionOf(answer.err) = ConditionOf(answer.data[1])

----------------------------------------------------------------------------
(* What Sorted and LatestInApp do to the caller's sequence *)

\* C29: Sorted works in place: after Sorted(k) with a known key, and after
\* LatestInApp() on a non-empty sequence, the caller's sequence is, element
\* for element, the sequence that was returned, in the order of the
\* comparator of the key (no record is Less than the one before it); it has
\* the records it had before, each once and with its fields as they were;
\* with an unknown key Sorted returns the sequence in its original order
C29_SortedInPlace ==
    /\ (SortedWith(ByPurchaseDate) \/ SortedWith(ByOriginalPurchaseDate)
            \/ (LatestCalled /\ Len(sortRes.input) > 0)) =>
           /\ inapps = sortRes.out
           /\ \A k \in 1..(Len(inapps) - 1) : ~Less(sortRes.by, inapps, k + 1, k)
           /\ Len(inapps) = Len(sortRes.input)
           /\ IsPermutation(inapps, sortRes.input)
    /\ SortedWith(OtherSortType) =>
           /\ sortRes.out = sortRes.input
           /\ inapps = sortRes.input

\* LatestInApp was called on a sequence that was not in order, and the
\* caller's sequence is now the reordered one
C29_Witness ==
    /\ LatestCalled
    /\ Len(sortRes.input) >= 2
    /\ sortRes.out # sortRes.input
    /\ inapps = sortRes.out

----------------------------------------------------------------------------
(* Status of a record over time *)

\* C30: for a fixed record seen again after the clock has advanced, Status()
\* has changed at most once and only into Expired: a Canceled record is
\* Canceled at every time, a record that is not canceled keeps its Pending,
\* Trial or Paid status until the current time has passed its expiration, and
\* a record that was Expired is Expired at every later time
C30_StatusChangesOnlyIntoExpired ==
    (observed.set /\ observed.prev.set) =>
        /\ observed.prev.at <= observed.at
        /\ observed.prev.status = Canceled <=> observed.status = Canceled
        /\ observed.prev.status = Expired => observed.status = Expired
        /\ observed.status # observed.prev.status =>
               /\ observed.status = Expired
               /\ observed.prev.status \in {Pending, Trial, Paid}
               /\ ExpirationInstant(inapp) < observed.at
        /\ (~observed.canceled /\ ~(ExpirationInstant(inapp) < observed.at)) =>
               /\ observed.status \in {Pending, Trial, Paid}
               /\ observed.status = observed.prev.status

\* a record in billing retry was Pending when it was seen before its expiry
\* and is Expired when it is seen after it
C30_Witness ==
    /\ observed.set /\ observed.prev.set
    /\ inapp.ExpiresDateMS > 0
    /\ observed.prev.at <= ExpirationInstant(inapp)
    /\ observed.prev.status = Pending
    /\ ExpirationInstant(inapp) < observed.at
    /\ observed.status = Expired

====
